---- MODULE Spec2Model ----
(***************************************************************************)
(* Dispatch and demand-balancing engine of the delivery simulation:        *)
(* nearest-driver assignment (find_nearest_driver, create_order, the       *)
(* generator thread auto_generate_orders), the completion / reassignment   *)
(* cycle (complete_delivery, assign_driver_to_next_order_or_hotspot,       *)
(* send_driver_to_hotspot), the hexagon statistics (update_hexagon_stats)  *)
(* and fleet deployment (deploy_drivers_flask).                            *)
(*                                                                         *)
(* Locations are points on the equator, 0.005 degrees of longitude apart:  *)
(* location k stands for (lat 0, lon 0.005 * k).  Distances are metres.    *)
(* The two SQLite tables are the variables drivers and orders; a commit    *)
(* is one step.  Handlers are split at the points where another thread or  *)
(* process can observe or change the shared state.                         *)
(***************************************************************************)
EXTENDS Integers, FiniteSets, Sequences, TLC

VARIABLES
    drivers,            \* table drivers: driver id -> [loc, hex_id, status]
    orders,             \* table orders: order id -> order row
    HEXAGON_DRIVERS,    \* hex id -> set of driver ids deployed in it
    HEXAGON_ORDERS,     \* hex id -> order counter
    HEXAGON_STATS,      \* hex id -> [driver_count, order_count, density_ratio, status]
    auto_order_running, \* the generator's run flag
    gen,                \* the generator thread
    co,                 \* the create_order handler (fastapi_app)
    cd,                 \* the complete_delivery handler (server)
    calls,              \* requests and generator cycles begun so far
    completions,        \* complete_delivery handlers running side by side
    starters,           \* start_auto_order_generation callers running side by side
    orphan              \* a generator thread auto_order_thread no longer refers to

vars == <<drivers, orders, HEXAGON_DRIVERS, HEXAGON_ORDERS, HEXAGON_STATS,
          auto_order_running, gen, co, cd, calls, completions, starters, orphan>>

store == <<drivers, orders>>
hexes == <<HEXAGON_DRIVERS, HEXAGON_ORDERS, HEXAGON_STATS>>
racers == <<completions, starters, orphan>>

----------------------------------------------------------------------------
\* Bounds of the model
MaxLoc     == 2     \* locations 0..MaxLoc
MaxDrivers == 2     \* largest fleet deploy_drivers_flask is asked for
MaxCalls   == 5     \* requests and generator cycles in one behaviour
MaxTime    == 1     \* seconds of the clock, 0..MaxTime
MaxRand    == 0     \* random order-id suffixes 1000..1000+MaxRand

Locs      == 0..MaxLoc
\* the <<pickup, destination>> pairs orders are created with: every pickup,
\* with the destination on the opposite side
Trips     == {<<p, MaxLoc - p>> : p \in Locs}
DriverIds == 1..MaxDrivers
Times     == 0..MaxTime
Rands     == 1000..(1000 + MaxRand)
Prefixes  == {"auto_order", "device_order"}
OrderIds  == Prefixes \X Times \X Rands   \* f'{prefix}_{int(time.time())}_{randint}'

NULL == -1                          \* SQL NULL / Python None

\* float('inf') in the scans
Infinity == 1000000000

\* metres between two neighbouring locations: 6371000 * radians(0.005)
StepMeters == 556

average_speed_kmh == 25

----------------------------------------------------------------------------
\* Pure functions

Abs(x) == IF x < 0 THEN -x ELSE x

Max(a, b) == IF a > b THEN a ELSE b

\* Haversine distance, on the equator: R * |dLon|
calculate_distance(a, b) == StepMeters * Abs(a - b)

\* eta_minutes = int((total / (25 * 1000 / 3600)) / 60)
eta_of(total_distance) == (total_distance * 3600) \div (average_speed_kmh * 1000 * 60)

\* h3.latlng_to_cell at resolution 8: neighbouring locations share a cell
\* in pairs; ids are non-empty strings in the code, here positive numbers
get_hex_id(loc) == (loc \div 2) + 1

COALESCE(x, y) == IF x = NULL THEN y ELSE x

\* all orderings of a finite set (row order of a SELECT without ORDER BY)
Perms(S) == {f \in [1..Cardinality(S) -> S] : \A i, j \in 1..Cardinality(S) : f[i] = f[j] => i = j}


RECURSIVE GCD(_, _)
GCD(a, b) == IF b = 0 THEN a ELSE GCD(b, a % b)

\* a quotient taken over one driver more than there are
RatioOverOneMore(num, den) == LET g == GCD(Abs(num), den + 1) IN <<num \div g, (den + 1) \div g>>

\* the quotient num / den (den > 0) as a fraction in lowest terms
Ratio(num, den) == LET g == GCD(Abs(num), den) IN <<num \div g, den \div g>>

RatioGT(x, y) == x[1] * y[2] > y[1] * x[2]
RatioLT(x, y) == x[1] * y[2] < y[1] * x[2]

----------------------------------------------------------------------------
\* The drivers and orders tables

available_drivers(drv) == {d \in DOMAIN drv : drv[d].status = "available"}

\* UPDATE drivers SET status = ? WHERE id = ?  (no row: nothing happens)
SetDriverStatus(drv, id, status) ==
    [d \in DOMAIN drv |-> IF d = id THEN [drv[d] EXCEPT !.status = status] ELSE drv[d]]

\* UPDATE drivers SET latitude = ?, longitude = ? WHERE id = ?
SetDriverLocation(drv, id, loc) ==
    [d \in DOMAIN drv |-> IF d = id THEN [drv[d] EXCEPT !.loc = loc] ELSE drv[d]]

\* the row create_order and the generator insert when a driver was found
AssignedRow(driver_id, pickup, dest, pickup_distance, created_at) ==
    LET delivery_distance == calculate_distance(pickup, dest)
        total_distance    == pickup_distance + delivery_distance
    IN [driver_id         |-> driver_id,
        pickup            |-> pickup,
        dest              |-> dest,
        pickup_distance   |-> pickup_distance,
        delivery_distance |-> delivery_distance,
        total_distance    |-> total_distance,
        eta_minutes       |-> eta_of(total_distance),
        status            |-> "assigned",
        created_at        |-> created_at]

\* the row the generator inserts when no driver was found
PendingRow(pickup, dest, created_at) ==
    LET delivery_distance == calculate_distance(pickup, dest)
        total_distance    == delivery_distance
    IN [driver_id         |-> NULL,
        pickup            |-> pickup,
        dest              |-> dest,
        pickup_distance   |-> NULL,
        delivery_distance |-> delivery_distance,
        total_distance    |-> total_distance,
        eta_minutes       |-> eta_of(total_distance),
        status            |-> "pending",
        created_at        |-> created_at]

assigned_orders(ord) == {o \in DOMAIN ord : ord[o].status = "assigned"}
pending_orders(ord) == {o \in DOMAIN ord : ord[o].status = "pending"}

\* the pending rows in any order (a SELECT without ORDER BY)
PendingUnordered(ord) == Perms(pending_orders(ord))

\* row orders of SELECT ... WHERE status = 'pending' ORDER BY created_at ASC
\* (rows of equal created_at come in any order)
PendingByCreatedAt(ord) ==
    {rows \in Perms(pending_orders(ord)) :
        \A i, j \in DOMAIN rows : i < j => ord[rows[i]].created_at <= ord[rows[j]].created_at}

\* the clock never runs backwards: a new row is stamped no earlier than any stored row
LastTime(ord) ==
    IF DOMAIN ord = {} THEN 0
    ELSE CHOOSE t \in Times : /\ \E o \in DOMAIN ord : ord[o].created_at = t
                              /\ \A o \in DOMAIN ord : ord[o].created_at <= t

ClockNow(ord) == {t \in Times : t >= LastTime(ord)}

----------------------------------------------------------------------------
\* find_nearest_driver

RECURSIVE NearestDriverLoop(_, _, _, _, _)
NearestDriverLoop(drv, rows, pickup, nearest_driver, min_distance) ==
    IF rows = <<>> THEN <<nearest_driver, min_distance>>
    ELSE LET driver   == Head(rows)
             distance == calculate_distance(drv[driver].loc, pickup)
         IN IF distance < min_distance
            THEN NearestDriverLoop(drv, Tail(rows), pickup, driver, distance)
            ELSE NearestDriverLoop(drv, Tail(rows), pickup, nearest_driver, min_distance)

\* a scan that keeps the first available row instead of the nearest
find_first_driver(drv, pickup) ==
    IF available_drivers(drv) = {} THEN {<<NULL, NULL>>}
    ELSE {<<d, calculate_distance(drv[d].loc, pickup)>> : d \in available_drivers(drv)}

\* the results find_nearest_driver can return: <<driver id, distance>>, or
\* <<NULL, NULL>>; the SELECT has no ORDER BY, so every row order is possible
find_nearest_driver(drv, pickup) ==
    IF available_drivers(drv) = {} THEN {<<NULL, NULL>>}
    ELSE {NearestDriverLoop(drv, rows, pickup, NULL, Infinity) :
              rows \in Perms(available_drivers(drv))}

----------------------------------------------------------------------------
\* Hexagon statistics

\* reading d[k] of a defaultdict creates the key
DefaultDict(d, keys, default) ==
    [k \in (DOMAIN d) \cup keys |-> IF k \in DOMAIN d THEN d[k] ELSE default]

HexStatus(density_ratio) ==
    IF RatioGT(density_ratio, <<3, 1>>) THEN "overloaded"
    ELSE IF RatioLT(density_ratio, <<1, 2>>) THEN "underutilized"
    ELSE "balanced"

\* update_hexagon_stats: the new <<HEXAGON_DRIVERS, HEXAGON_ORDERS, HEXAGON_STATS>>
update_hexagon_stats(HD, HO) ==
    LET keys == (DOMAIN HD) \cup (DOMAIN HO)
        HD2  == DefaultDict(HD, keys, {})
        HO2  == DefaultDict(HO, keys, 0)
        stats == [hex_id \in keys |->
                    LET driver_count  == Cardinality(HD2[hex_id])
                        order_count   == HO2[hex_id]
                        density_ratio == Ratio(order_count, Max(driver_count, 1))
                    IN [driver_count  |-> driver_count,
                        order_count   |-> order_count,
                        density_ratio |-> density_ratio,
                        status        |-> HexStatus(density_ratio)]]
    IN <<HD2, HO2, stats>>

\* HEXAGON_ORDERS[pickup_hex] += 1
IncrementOrders(HO, hex_id) ==
    LET HO2 == DefaultDict(HO, {hex_id}, 0) IN [HO2 EXCEPT ![hex_id] = @ + 1]

\* if HEXAGON_ORDERS.get(pickup_hex, 0) > 0: HEXAGON_ORDERS[pickup_hex] -= 1
DecrementOrders(HO, hex_id) ==
    IF hex_id \in DOMAIN HO /\ HO[hex_id] > 0 THEN [HO EXCEPT ![hex_id] = @ - 1] ELSE HO

RECURSIVE HotspotLoop(_, _, _, _)
HotspotLoop(stats, items, hotspot_hex_id, max_density) ==
    IF items = <<>> THEN hotspot_hex_id
    ELSE LET hex_id == Head(items)
         IN IF stats[hex_id].order_count > 0 /\ RatioGT(stats[hex_id].density_ratio, max_density)
            THEN HotspotLoop(stats, Tail(items), hex_id, stats[hex_id].density_ratio)
            ELSE HotspotLoop(stats, Tail(items), hotspot_hex_id, max_density)

\* a selection that takes any cell of the statistics
select_any_cell(stats) == IF DOMAIN stats = {} THEN {NULL} ELSE DOMAIN stats

\* a selection that takes any cell with orders, whatever its density
select_any_demand(stats) ==
    IF \A h \in DOMAIN stats : stats[h].order_count <= 0 THEN {NULL}
    ELSE {h \in DOMAIN stats : stats[h].order_count > 0}

\* the cells send_driver_to_hotspot can select (NULL: none); the dict is
\* filled in the iteration order of a set, so every order is possible
select_hotspot(stats) ==
    {HotspotLoop(stats, items, NULL, <<0, 1>>) : items \in Perms(DOMAIN stats)}

----------------------------------------------------------------------------
\* assign_driver_to_next_order_or_hotspot

RECURSIVE NearestOrderLoop(_, _, _, _, _)
NearestOrderLoop(ord, rows, loc, nearest_order, min_distance) ==
    IF rows = <<>> THEN <<nearest_order, min_distance>>
    ELSE LET order    == Head(rows)
             distance == calculate_distance(loc, ord[order].pickup)
         IN IF distance < min_distance
            THEN NearestOrderLoop(ord, Tail(rows), loc, order, distance)
            ELSE NearestOrderLoop(ord, Tail(rows), loc, nearest_order, min_distance)

\* a scan that keeps the first pending row, the oldest, instead of the nearest
find_oldest_order(ord, loc) ==
    {<<Head(rows), calculate_distance(loc, ord[Head(rows)].pickup)>> :
        rows \in PendingByCreatedAt(ord)}

\* the <<order id, distance>> pairs the scan of the pending orders can end with
find_nearest_order(ord, loc) ==
    {NearestOrderLoop(ord, rows, loc, NULL, Infinity) : rows \in PendingByCreatedAt(ord)}

\* UPDATE orders SET driver_id = ?, status = 'assigned', pickup_distance = ?,
\*   total_distance = COALESCE(pickup_distance, 0) + COALESCE(delivery_distance, 0)
\* WHERE id = ?      (the right-hand sides read the row as it was before the update)
AssignOrderRow(row, driver_id, min_distance) ==
    [row EXCEPT !.driver_id       = driver_id,
                !.status          = "assigned",
                !.pickup_distance = min_distance,
                !.total_distance  = COALESCE(row.pickup_distance, 0)
                                    + COALESCE(row.delivery_distance, 0)]

AssignOrder(ord, id, driver_id, min_distance) ==
    [o \in DOMAIN ord |->
        IF o = id THEN AssignOrderRow(ord[o], driver_id, min_distance) ELSE ord[o]]

\* a transaction that frees the driver where it stood
CompleteTxnNoMove(drv, ord, order_id, driver_id) ==
    <<SetDriverStatus(drv, driver_id, "available"),
      [ord EXCEPT ![order_id].status = "delivered"]>>

\* the transaction of complete_delivery: order delivered, driver available
\* and moved to the order's destination
CompleteTxn(drv, ord, order_id, driver_id) ==
    LET ord2 == [ord EXCEPT ![order_id].status = "delivered"]
        drv2 == SetDriverStatus(drv, driver_id, "available")
        drv3 == SetDriverLocation(drv2, driver_id, ord[order_id].dest)
    IN <<drv3, ord2>>

----------------------------------------------------------------------------
\* Threads and handlers

CoIdle  == [pc |-> "idle", pickup |-> NULL, dest |-> NULL,
            nearest |-> NULL, dist |-> NULL, resp |-> NULL]
CdIdle  == [pc |-> "idle", order_id |-> NULL, driver_id |-> NULL,
            nearest |-> NULL, dist |-> NULL, resp |-> NULL]
GenDead == [pc |-> "dead", pickup |-> NULL, dest |-> NULL,
            nearest |-> NULL, dist |-> NULL]
GenLoop == [GenDead EXCEPT !.pc = "loop"]

\* the request handlers that may run side by side
Completers == {"c1", "c2"}
Starters   == {"s1", "s2"}
NoRacers ==
    /\ completions = [c \in Completers |-> CdIdle]
    /\ starters = [s \in Starters |-> "idle"]
    /\ orphan = GenDead

\* no handler is between two of its steps (the generator is asleep or not started)
AllIdle == co.pc = "idle" /\ cd.pc = "idle" /\ gen.pc \in {"dead", "loop"}

\* a request or a generator cycle may begin
MayCall == calls < MaxCalls
Called  == calls' = calls + 1

Init ==
    /\ drivers = <<>>
    /\ orders = <<>>
    /\ HEXAGON_DRIVERS = <<>>
    /\ HEXAGON_ORDERS = <<>>
    /\ HEXAGON_STATS = <<>>
    /\ auto_order_running = FALSE
    /\ gen = GenDead
    /\ co = CoIdle
    /\ cd = CdIdle
    /\ calls = 0
    /\ NoRacers

----------------------------------------------------------------------------
\* start_auto_order_generation / stop_auto_order_generation

\* the effect of start_auto_order_generation on <<auto_order_running, gen>>
start_auto_order_generation(running, g) ==
    IF g.pc = "dead" THEN <<TRUE, GenLoop>> ELSE <<running, g>>

StartAutoOrders ==
    /\ AllIdle
    /\ MayCall
    /\ Called
    /\ auto_order_running' = start_auto_order_generation(auto_order_running, gen)[1]
    /\ gen' = start_auto_order_generation(auto_order_running, gen)[2]
    /\ UNCHANGED <<store, hexes, co, cd, racers>>

StopAutoOrders ==
    /\ co.pc = "idle" /\ cd.pc = "idle"
    /\ MayCall
    /\ Called
    /\ auto_order_running' = FALSE
    /\ UNCHANGED <<store, hexes, gen, co, cd, racers>>

----------------------------------------------------------------------------
\* deploy_drivers_flask

\* the fleet drv_1..drv_count at the drawn locations
NewFleet(count, locs) ==
    [d \in 1..count |-> [loc |-> locs[d], hex_id |-> get_hex_id(locs[d]), status |-> "available"]]

\* HEXAGON_DRIVERS after the clear and the appends
FleetHexagons(count, locs) ==
    [h \in {get_hex_id(locs[d]) : d \in 1..count} |->
        {d \in 1..count : get_hex_id(locs[d]) = h}]

DeployDrivers(count, locs) ==
    /\ AllIdle
    /\ MayCall
    /\ Called
    /\ drivers' = NewFleet(count, locs)
    /\ LET upd == update_hexagon_stats(FleetHexagons(count, locs), HEXAGON_ORDERS)
       IN /\ HEXAGON_DRIVERS' = upd[1]
          /\ HEXAGON_ORDERS' = upd[2]
          /\ HEXAGON_STATS' = upd[3]
    /\ auto_order_running' = start_auto_order_generation(auto_order_running, gen)[1]
    /\ gen' = start_auto_order_generation(auto_order_running, gen)[2]
    /\ UNCHANGED <<orders, co, cd, racers>>

----------------------------------------------------------------------------
\* The insert-and-mark-busy transaction shared by create_order and the generator

\* a transaction that marks the driver busy before the insert can fail
InsertAssignedBusyFirst(drv, ord, id, nearest, pickup, dest, pickup_distance) ==
    IF id \in DOMAIN ord THEN <<SetDriverStatus(drv, nearest, "busy"), ord>>
    ELSE <<SetDriverStatus(drv, nearest, "busy"),
           ord @@ (id :> AssignedRow(nearest, pickup, dest, pickup_distance, id[2]))>>

\* INSERT INTO orders (...) 'assigned'; UPDATE drivers SET status = 'busy'; commit.
\* The new <<drivers, orders>>; a duplicate id raises before anything is written.
InsertAssigned(drv, ord, id, nearest, pickup, dest, pickup_distance) ==
    IF id \in DOMAIN ord THEN <<drv, ord>>
    ELSE <<SetDriverStatus(drv, nearest, "busy"),
           ord @@ (id :> AssignedRow(nearest, pickup, dest, pickup_distance, id[2]))>>

\* INSERT INTO orders (...) 'pending'; commit
InsertPending(ord, id, pickup, dest) ==
    IF id \in DOMAIN ord THEN ord
    ELSE ord @@ (id :> PendingRow(pickup, dest, id[2]))

----------------------------------------------------------------------------
\* create_order (fastapi_app)

CoRequest(pickup, dest) ==
    /\ co.pc = "idle"
    /\ MayCall
    /\ Called
    /\ co' = [CoIdle EXCEPT !.pc = "scan", !.pickup = pickup, !.dest = dest]
    /\ UNCHANGED <<store, hexes, auto_order_running, gen, cd, racers>>

\* find_nearest_driver; no driver: HTTP 400, nothing is stored
CoScan ==
    /\ co.pc = "scan"
    /\ \E found \in find_nearest_driver(drivers, co.pickup) :
          co' = IF found[1] = NULL
                THEN [co EXCEPT !.pc = "done", !.resp = 400]
                ELSE [co EXCEPT !.pc = "write", !.nearest = found[1], !.dist = found[2]]
    /\ UNCHANGED <<store, hexes, auto_order_running, gen, cd, calls, racers>>

\* the insert and the driver update, one transaction; a database error: HTTP 500
CoWrite ==
    /\ co.pc = "write"
    /\ \E t \in ClockNow(orders), r \in Rands :
          LET id  == <<"device_order", t, r>>
              txn == InsertAssigned(drivers, orders, id, co.nearest, co.pickup, co.dest, co.dist)
          IN /\ drivers' = txn[1]
             /\ orders' = txn[2]
             /\ co' = [co EXCEPT !.pc = "done",
                                 !.resp = IF id \in DOMAIN orders THEN 500 ELSE 200]
    /\ UNCHANGED <<hexes, auto_order_running, gen, cd, calls, racers>>

CoReturn ==
    /\ co.pc = "done"
    /\ co' = CoIdle
    /\ UNCHANGED <<store, hexes, auto_order_running, gen, cd, calls, racers>>

----------------------------------------------------------------------------
\* auto_generate_orders (the generator thread)

\* while auto_order_running: false, the thread ends
GenExit ==
    /\ gen.pc = "loop"
    /\ ~auto_order_running
    /\ gen' = GenDead
    /\ UNCHANGED <<store, hexes, auto_order_running, co, cd, calls, racers>>

\* the insert of a cycle: assigned when a driver was found, pending when not
GenInsert(drv, ord, id, nearest, pickup, dest, pickup_distance) ==
    IF nearest # NULL
    THEN InsertAssigned(drv, ord, id, nearest, pickup, dest, pickup_distance)
    ELSE <<drv, InsertPending(ord, id, pickup, dest)>>

\* a cycle begins: pickup and destination are drawn, find_nearest_driver runs
GenScan(pickup, dest) ==
    /\ gen.pc = "loop"
    /\ auto_order_running
    /\ MayCall
    /\ Called
    /\ \E found \in find_nearest_driver(drivers, pickup) :
          gen' = [pc |-> "hex", pickup |-> pickup, dest |-> dest,
                  nearest |-> found[1], dist |-> found[2]]
    /\ UNCHANGED <<store, hexes, auto_order_running, co, cd, racers>>

\* HEXAGON_ORDERS[pickup_hex] += 1; update_hexagon_stats()
GenHex ==
    /\ gen.pc = "hex"
    /\ LET upd == update_hexagon_stats(HEXAGON_DRIVERS,
                      IncrementOrders(HEXAGON_ORDERS, get_hex_id(gen.pickup)))
       IN /\ HEXAGON_DRIVERS' = upd[1]
          /\ HEXAGON_ORDERS' = upd[2]
          /\ HEXAGON_STATS' = upd[3]
    /\ gen' = [gen EXCEPT !.pc = "write"]
    /\ UNCHANGED <<store, auto_order_running, co, cd, calls, racers>>

\* the assigned or the pending insert; an exception is printed and the
\* thread goes to sleep all the same
GenWrite ==
    /\ gen.pc = "write"
    /\ \E t \in ClockNow(orders), r \in Rands :
          LET txn == GenInsert(drivers, orders, <<"auto_order", t, r>>, gen.nearest,
                               gen.pickup, gen.dest, gen.dist)
          IN drivers' = txn[1] /\ orders' = txn[2]
    /\ gen' = GenLoop
    /\ UNCHANGED <<hexes, auto_order_running, co, cd, calls, racers>>

----------------------------------------------------------------------------
\* complete_delivery (server)

\* an order id no order ever gets (the random suffix is at least 1000)
UnknownOrder == <<"auto_order", 0, 0>>

CdRequest(order_id, driver_id) ==
    /\ cd.pc = "idle"
    /\ MayCall
    /\ Called
    /\ cd' = [CdIdle EXCEPT !.pc = "lookup", !.order_id = order_id, !.driver_id = driver_id]
    /\ UNCHANGED <<store, hexes, auto_order_running, gen, co, racers>>

\* a handler that frees the driver before it looks the order up
CdLookupDriverFirst ==
    /\ cd.pc = "lookup"
    /\ IF cd.order_id \notin DOMAIN orders
       THEN /\ cd' = [cd EXCEPT !.pc = "done", !.resp = 404]
            /\ drivers' = SetDriverStatus(drivers, cd.driver_id, "available")
            /\ orders' = orders
       ELSE /\ drivers' = CompleteTxn(drivers, orders, cd.order_id, cd.driver_id)[1]
            /\ orders' = CompleteTxn(drivers, orders, cd.order_id, cd.driver_id)[2]
            /\ cd' = [cd EXCEPT !.pc = "hex"]
    /\ UNCHANGED <<hexes, auto_order_running, gen, co, calls, racers>>

\* SELECT the order: none, HTTP 404; else the three updates and the commit
CdLookup ==
    /\ cd.pc = "lookup"
    /\ IF cd.order_id \notin DOMAIN orders
       THEN /\ cd' = [cd EXCEPT !.pc = "done", !.resp = 404]
            /\ UNCHANGED store
       ELSE /\ drivers' = CompleteTxn(drivers, orders, cd.order_id, cd.driver_id)[1]
            /\ orders' = CompleteTxn(drivers, orders, cd.order_id, cd.driver_id)[2]
            /\ cd' = [cd EXCEPT !.pc = "hex"]
    /\ UNCHANGED <<hexes, auto_order_running, gen, co, calls, racers>>

\* the pickup cell's counter is decremented and the statistics rebuilt
CdHex ==
    /\ cd.pc = "hex"
    /\ LET upd == update_hexagon_stats(HEXAGON_DRIVERS,
                      DecrementOrders(HEXAGON_ORDERS, get_hex_id(orders[cd.order_id].pickup)))
       IN /\ HEXAGON_DRIVERS' = upd[1]
          /\ HEXAGON_ORDERS' = upd[2]
          /\ HEXAGON_STATS' = upd[3]
    /\ cd' = [cd EXCEPT !.pc = "reassign"]
    /\ UNCHANGED <<store, auto_order_running, gen, co, calls, racers>>

\* a redirect that marks the driver whether or not a cell was selected
send_driver_anyway(drv, stats, driver_id, hotspot_hex_id) ==
    SetDriverStatus(drv, driver_id, "moving_to_hotspot")

\* send_driver_to_hotspot: the drivers table after it
send_driver_to_hotspot(drv, stats, driver_id, hotspot_hex_id) ==
    IF hotspot_hex_id # NULL THEN SetDriverStatus(drv, driver_id, "moving_to_hotspot") ELSE drv

\* assign_driver_to_next_order_or_hotspot, up to the choice of the order:
\* no such driver, return; pending orders, pick the nearest; none, hotspot
CdReassign ==
    /\ cd.pc = "reassign"
    /\ IF cd.driver_id \notin DOMAIN drivers
       THEN /\ cd' = [cd EXCEPT !.pc = "done", !.resp = 200]
            /\ UNCHANGED drivers
       ELSE IF pending_orders(orders) # {}
       THEN /\ \E found \in find_nearest_order(orders, drivers[cd.driver_id].loc) :
                  cd' = [cd EXCEPT !.pc = "assign", !.nearest = found[1], !.dist = found[2]]
            /\ UNCHANGED drivers
       ELSE /\ \E hotspot_hex_id \in select_hotspot(HEXAGON_STATS) :
                  drivers' = send_driver_to_hotspot(drivers, HEXAGON_STATS,
                                                    cd.driver_id, hotspot_hex_id)
            /\ cd' = [cd EXCEPT !.pc = "done", !.resp = 200]
    /\ UNCHANGED <<orders, hexes, auto_order_running, gen, co, calls, racers>>

\* the chosen order is given to the driver, the driver marked busy; commit
CdAssign ==
    /\ cd.pc = "assign"
    /\ orders' = AssignOrder(orders, cd.nearest, cd.driver_id, cd.dist)
    /\ drivers' = SetDriverStatus(drivers, cd.driver_id, "busy")
    /\ cd' = [cd EXCEPT !.pc = "done", !.resp = 200]
    /\ UNCHANGED <<hexes, auto_order_running, gen, co, calls, racers>>

CdReturn ==
    /\ cd.pc = "done"
    /\ cd' = CdIdle
    /\ UNCHANGED <<store, hexes, auto_order_running, gen, co, calls, racers>>

----------------------------------------------------------------------------
\* Whole handlers, each run in one step (a completion in progress may be
\* overtaken by an order creation or a generator cycle)

CreateOrder(pickup, dest) ==
    /\ co.pc = "idle" /\ gen.pc \in {"dead", "loop"}
    /\ MayCall
    /\ Called
    /\ \E found \in find_nearest_driver(drivers, pickup) :
          IF found[1] = NULL THEN UNCHANGED store
          ELSE \E t \in ClockNow(orders), r \in Rands :
                  LET txn == InsertAssigned(drivers, orders, <<"device_order", t, r>>,
                                            found[1], pickup, dest, found[2])
                  IN drivers' = txn[1] /\ orders' = txn[2]
    /\ UNCHANGED <<hexes, auto_order_running, gen, co, cd, racers>>

GenCycle(pickup, dest) ==
    /\ co.pc = "idle" /\ gen.pc \in {"dead", "loop"}
    /\ gen.pc = "loop"
    /\ auto_order_running
    /\ MayCall
    /\ Called
    /\ LET upd == update_hexagon_stats(HEXAGON_DRIVERS,
                      IncrementOrders(HEXAGON_ORDERS, get_hex_id(pickup)))
       IN /\ HEXAGON_DRIVERS' = upd[1]
          /\ HEXAGON_ORDERS' = upd[2]
          /\ HEXAGON_STATS' = upd[3]
    /\ \E found \in find_nearest_driver(drivers, pickup) :
       \E t \in ClockNow(orders), r \in Rands :
          LET txn == GenInsert(drivers, orders, <<"auto_order", t, r>>, found[1],
                               pickup, dest, found[2])
          IN drivers' = txn[1] /\ orders' = txn[2]
    /\ UNCHANGED <<auto_order_running, gen, co, cd, racers>>

\* assign_driver_to_next_order_or_hotspot: the <<drivers, orders>> it can leave
Reassigned(drv, ord, stats, driver_id) ==
    IF driver_id \notin DOMAIN drv THEN {<<drv, ord>>}
    ELSE IF pending_orders(ord) # {}
    THEN {<<SetDriverStatus(drv, driver_id, "busy"), AssignOrder(ord, found[1], driver_id, found[2])>> :
              found \in find_nearest_order(ord, drv[driver_id].loc)}
    ELSE {<<send_driver_to_hotspot(drv, stats, driver_id, hotspot_hex_id), ord>> :
              hotspot_hex_id \in select_hotspot(stats)}

CompleteDelivery(order_id, driver_id) ==
    /\ AllIdle
    /\ MayCall
    /\ Called
    /\ IF order_id \notin DOMAIN orders THEN UNCHANGED <<store, hexes>>
       ELSE LET txn == CompleteTxn(drivers, orders, order_id, driver_id)
                upd == update_hexagon_stats(HEXAGON_DRIVERS,
                           DecrementOrders(HEXAGON_ORDERS, get_hex_id(orders[order_id].pickup)))
            IN /\ HEXAGON_DRIVERS' = upd[1]
               /\ HEXAGON_ORDERS' = upd[2]
               /\ HEXAGON_STATS' = upd[3]
               /\ \E res \in Reassigned(txn[1], txn[2], upd[3], driver_id) :
                     drivers' = res[1] /\ orders' = res[2]
    /\ UNCHANGED <<auto_order_running, gen, co, cd, racers>>

----------------------------------------------------------------------------
\* start_auto_order_generation called from several request threads at once

StRequest(s) ==
    /\ starters[s] = "idle"
    /\ MayCall
    /\ Called
    /\ starters' = [starters EXCEPT ![s] = "check"]
    /\ UNCHANGED <<store, hexes, auto_order_running, gen, co, cd, completions, orphan>>

\* if auto_order_thread is None or not auto_order_thread.is_alive()
StCheck(s) ==
    /\ starters[s] = "check"
    /\ starters' = [starters EXCEPT ![s] = IF gen.pc = "dead" THEN "start" ELSE "idle"]
    /\ UNCHANGED <<store, hexes, auto_order_running, gen, co, cd, calls, completions, orphan>>

\* auto_order_running = True; auto_order_thread = Thread(...); start().
\* A thread started since the check lives on, no longer referred to (at
\* most one such thread is followed).
StStart(s) ==
    /\ starters[s] = "start"
    /\ gen.pc = "dead" \/ orphan.pc = "dead"
    /\ auto_order_running' = TRUE
    /\ orphan' = IF gen.pc = "dead" THEN orphan ELSE gen
    /\ gen' = GenLoop
    /\ starters' = [starters EXCEPT ![s] = "idle"]
    /\ UNCHANGED <<store, hexes, co, cd, calls, completions>>

\* the loop of auto_generate_orders, run by the thread no longer referred to
OrphanExit ==
    /\ orphan.pc = "loop"
    /\ ~auto_order_running
    /\ orphan' = GenDead
    /\ UNCHANGED <<store, hexes, auto_order_running, gen, co, cd, calls, completions, starters>>

OrphanScan(pickup, dest) ==
    /\ orphan.pc = "loop"
    /\ auto_order_running
    /\ MayCall
    /\ Called
    /\ \E found \in find_nearest_driver(drivers, pickup) :
          orphan' = [pc |-> "hex", pickup |-> pickup, dest |-> dest,
                     nearest |-> found[1], dist |-> found[2]]
    /\ UNCHANGED <<store, hexes, auto_order_running, gen, co, cd, completions, starters>>

OrphanHex ==
    /\ orphan.pc = "hex"
    /\ LET upd == update_hexagon_stats(HEXAGON_DRIVERS,
                      IncrementOrders(HEXAGON_ORDERS, get_hex_id(orphan.pickup)))
       IN /\ HEXAGON_DRIVERS' = upd[1]
          /\ HEXAGON_ORDERS' = upd[2]
          /\ HEXAGON_STATS' = upd[3]
    /\ orphan' = [orphan EXCEPT !.pc = "write"]
    /\ UNCHANGED <<store, auto_order_running, gen, co, cd, calls, completions, starters>>

OrphanWrite ==
    /\ orphan.pc = "write"
    /\ \E t \in ClockNow(orders), r \in Rands :
          LET txn == GenInsert(drivers, orders, <<"auto_order", t, r>>, orphan.nearest,
                               orphan.pickup, orphan.dest, orphan.dist)
          IN drivers' = txn[1] /\ orders' = txn[2]
    /\ orphan' = GenLoop
    /\ UNCHANGED <<hexes, auto_order_running, gen, co, cd, calls, completions, starters>>

----------------------------------------------------------------------------
\* complete_delivery called from several request threads at once

CnRequest(c, order_id, driver_id) ==
    /\ completions[c].pc = "idle"
    /\ MayCall
    /\ Called
    /\ completions' = [completions EXCEPT
          ![c] = [CdIdle EXCEPT !.pc = "lookup", !.order_id = order_id, !.driver_id = driver_id]]
    /\ UNCHANGED <<store, hexes, auto_order_running, gen, co, cd, starters, orphan>>

\* the order is looked up; found: the transaction of complete_delivery
CnLookup(c) ==
    /\ completions[c].pc = "lookup"
    /\ LET h == completions[c]
       IN IF h.order_id \notin DOMAIN orders
          THEN /\ completions' = [completions EXCEPT ![c].pc = "done", ![c].resp = 404]
               /\ UNCHANGED store
          ELSE /\ drivers' = CompleteTxn(drivers, orders, h.order_id, h.driver_id)[1]
               /\ orders' = CompleteTxn(drivers, orders, h.order_id, h.driver_id)[2]
               /\ completions' = [completions EXCEPT ![c].pc = "check"]
    /\ UNCHANGED <<hexes, auto_order_running, gen, co, cd, calls, starters, orphan>>

\* if HEXAGON_ORDERS.get(pickup_hex, 0) > 0
CnCheck(c) ==
    /\ completions[c].pc = "check"
    /\ LET pickup_hex == get_hex_id(orders[completions[c].order_id].pickup)
       IN completions' = [completions EXCEPT ![c].pc =
             IF pickup_hex \in DOMAIN HEXAGON_ORDERS /\ HEXAGON_ORDERS[pickup_hex] > 0
             THEN "decrement" ELSE "stats"]
    /\ UNCHANGED <<store, hexes, auto_order_running, gen, co, cd, calls, starters, orphan>>

\* HEXAGON_ORDERS[pickup_hex] -= 1
CnDecrement(c) ==
    /\ completions[c].pc = "decrement"
    /\ LET pickup_hex == get_hex_id(orders[completions[c].order_id].pickup)
       IN HEXAGON_ORDERS' = [HEXAGON_ORDERS EXCEPT ![pickup_hex] = @ - 1]
    /\ completions' = [completions EXCEPT ![c].pc = "stats"]
    /\ UNCHANGED <<store, HEXAGON_DRIVERS, HEXAGON_STATS, auto_order_running, gen, co, cd,
                   calls, starters, orphan>>

\* update_hexagon_stats()
CnStats(c) ==
    /\ completions[c].pc = "stats"
    /\ LET upd == update_hexagon_stats(HEXAGON_DRIVERS, HEXAGON_ORDERS)
       IN /\ HEXAGON_DRIVERS' = upd[1]
          /\ HEXAGON_ORDERS' = upd[2]
          /\ HEXAGON_STATS' = upd[3]
    /\ completions' = [completions EXCEPT ![c].pc = "reassign"]
    /\ UNCHANGED <<store, auto_order_running, gen, co, cd, calls, starters, orphan>>

\* assign_driver_to_next_order_or_hotspot, up to the choice of the order
CnReassign(c) ==
    /\ completions[c].pc = "reassign"
    /\ LET h == completions[c]
       IN IF h.driver_id \notin DOMAIN drivers
          THEN /\ completions' = [completions EXCEPT ![c].pc = "done", ![c].resp = 200]
               /\ UNCHANGED drivers
          ELSE IF pending_orders(orders) # {}
          THEN /\ \E found \in find_nearest_order(orders, drivers[h.driver_id].loc) :
                     completions' = [completions EXCEPT ![c].pc = "assign",
                                        ![c].nearest = found[1], ![c].dist = found[2]]
               /\ UNCHANGED drivers
          ELSE /\ \E hotspot_hex_id \in select_hotspot(HEXAGON_STATS) :
                     drivers' = send_driver_to_hotspot(drivers, HEXAGON_STATS,
                                                       h.driver_id, hotspot_hex_id)
               /\ completions' = [completions EXCEPT ![c].pc = "done", ![c].resp = 200]
    /\ UNCHANGED <<orders, hexes, auto_order_running, gen, co, cd, calls, starters, orphan>>

CnAssign(c) ==
    /\ completions[c].pc = "assign"
    /\ orders' = AssignOrder(orders, completions[c].nearest,
                             completions[c].driver_id, completions[c].dist)
    /\ drivers' = SetDriverStatus(drivers, completions[c].driver_id, "busy")
    /\ completions' = [completions EXCEPT ![c].pc = "done", ![c].resp = 200]
    /\ UNCHANGED <<hexes, auto_order_running, gen, co, cd, calls, starters, orphan>>

CnReturn(c) ==
    /\ completions[c].pc = "done"
    /\ completions' = [completions EXCEPT ![c] = CdIdle]
    /\ UNCHANGED <<store, hexes, auto_order_running, gen, co, cd, calls, starters, orphan>>

----------------------------------------------------------------------------
\* Specifications

\* every operation from the start of the server, handlers run one at a time
Next ==
    \/ \E count \in 0..MaxDrivers : \E locs \in [1..count -> Locs] : DeployDrivers(count, locs)
    \/ StartAutoOrders
    \/ StopAutoOrders
    \/ \E trip \in Trips : CreateOrder(trip[1], trip[2])
    \/ \E trip \in Trips : GenCycle(trip[1], trip[2])
    \/ GenExit
    \/ \E order_id \in (DOMAIN orders) \cup {UnknownOrder}, driver_id \in DriverIds :
          CompleteDelivery(order_id, driver_id)

Spec == Init /\ [][Next]_vars

\* the state one deploy_drivers_flask call leaves the fresh server in:
\* a fleet of available drivers, no order, the generator started
InitFleet ==
    /\ \E count \in 1..MaxDrivers : \E locs \in [1..count -> Locs] :
          /\ drivers = NewFleet(count, locs)
          /\ LET upd == update_hexagon_stats(FleetHexagons(count, locs), <<>>)
             IN /\ HEXAGON_DRIVERS = upd[1]
                /\ HEXAGON_ORDERS = upd[2]
                /\ HEXAGON_STATS = upd[3]
    /\ orders = <<>>
    /\ auto_order_running = TRUE
    /\ gen = GenLoop
    /\ co = CoIdle
    /\ cd = CdIdle
    /\ calls = 1
    /\ NoRacers

\* create_order requests and generator cycles over a deployed fleet, their
\* steps interleaved
NextAssign ==
    \/ \E trip \in Trips : CoRequest(trip[1], trip[2])
    \/ CoScan
    \/ CoWrite
    \/ CoReturn
    \/ \E trip \in Trips : GenScan(trip[1], trip[2])
    \/ GenHex
    \/ GenWrite

SpecAssign == InitFleet /\ [][NextAssign]_vars

\* complete_delivery step by step, between whole order creations
NextComplete ==
    \/ \E trip \in Trips : CreateOrder(trip[1], trip[2])
    \/ \E trip \in Trips : GenCycle(trip[1], trip[2])
    \/ \E order_id \in (DOMAIN orders) \cup {UnknownOrder}, driver_id \in DriverIds :
          CdRequest(order_id, driver_id)
    \/ CdLookup
    \/ CdHex
    \/ CdReassign
    \/ CdAssign
    \/ CdReturn

SpecComplete == InitFleet /\ [][NextComplete]_vars

\* start and stop requests on a fresh server, the starts racing each other,
\* every generator thread step by step
NextStart ==
    \/ \E s \in Starters : StRequest(s)
    \/ \E s \in Starters : StCheck(s)
    \/ \E s \in Starters : StStart(s)
    \/ StopAutoOrders
    \/ \E trip \in Trips : GenScan(trip[1], trip[2])
    \/ GenHex
    \/ GenWrite
    \/ GenExit
    \/ \E trip \in Trips : OrphanScan(trip[1], trip[2])
    \/ OrphanHex
    \/ OrphanWrite
    \/ OrphanExit

SpecStart == Init /\ [][NextStart]_vars

\* complete_delivery requests racing each other over a deployed fleet,
\* between whole generator cycles
NextCount ==
    \/ \E trip \in Trips : GenCycle(trip[1], trip[2])
    \/ \E c \in Completers, order_id \in DOMAIN orders, driver_id \in DOMAIN drivers :
          CnRequest(c, order_id, driver_id)
    \/ \E c \in Completers : CnLookup(c)
    \/ \E c \in Completers : CnCheck(c)
    \/ \E c \in Completers : CnDecrement(c)
    \/ \E c \in Completers : CnStats(c)
    \/ \E c \in Completers : CnReassign(c)
    \/ \E c \in Completers : CnAssign(c)
    \/ \E c \in Completers : CnReturn(c)

SpecCount == InitFleet /\ [][NextCount]_vars

\* create_order step by step while a complete_delivery request runs step by
\* step, between whole generator cycles, over a deployed fleet
NextRedirect ==
    \/ \E trip \in Trips : GenCycle(trip[1], trip[2])
    \/ \E trip \in Trips : CoRequest(trip[1], trip[2])
    \/ CoScan
    \/ CoWrite
    \/ CoReturn
    \/ \E order_id \in assigned_orders(orders) :
          CnRequest("c1", order_id, orders[order_id].driver_id)
    \/ CnLookup("c1")
    \/ CnCheck("c1")
    \/ CnDecrement("c1")
    \/ CnStats("c1")
    \/ CnReassign("c1")
    \/ CnAssign("c1")
    \/ CnReturn("c1")

SpecRedirect == InitFleet /\ [][NextRedirect]_vars

----------------------------------------------------------------------------
\* Unbounded runs: the generator keeps adding orders while every assigned
\* order is completed by its own driver.  Neither handler reads a delivered
\* row again, and created_at is read only to order the pending rows, so the
\* delivered rows are left out of the state and created_at is kept as the
\* rank of the row among the stored ones; an id is free again once its
\* order is delivered.

\* the orders that can be undelivered at one time
MaxLive == 3

LiveIds == {<<"auto_order", t, r>> : t \in 0..(MaxLive - 1), r \in Rands}

Undelivered(ord) ==
    LET live == {o \in DOMAIN ord : ord[o].status # "delivered"}
    IN [o \in live |-> ord[o]]

Ranked(ord) ==
    [o \in DOMAIN ord |->
        [ord[o] EXCEPT !.created_at =
            Cardinality({x \in DOMAIN ord : ord[x].created_at < ord[o].created_at})]]

\* one cycle of auto_generate_orders, stamped later than every stored row
LiveGenCycle(pickup, dest) ==
    /\ auto_order_running
    /\ gen.pc = "loop"
    /\ Cardinality(DOMAIN orders) < MaxLive
    /\ LET upd == update_hexagon_stats(HEXAGON_DRIVERS,
                      IncrementOrders(HEXAGON_ORDERS, get_hex_id(pickup)))
       IN /\ HEXAGON_DRIVERS' = upd[1]
          /\ HEXAGON_ORDERS' = upd[2]
          /\ HEXAGON_STATS' = upd[3]
    /\ \E found \in find_nearest_driver(drivers, pickup) :
       \E id \in LiveIds \ DOMAIN orders :
          LET created_at == Cardinality(DOMAIN orders)
          IN IF found[1] # NULL
             THEN /\ drivers' = SetDriverStatus(drivers, found[1], "busy")
                  /\ orders' = orders @@
                        (id :> AssignedRow(found[1], pickup, dest, found[2], created_at))
             ELSE /\ drivers' = drivers
                  /\ orders' = orders @@ (id :> PendingRow(pickup, dest, created_at))
    /\ UNCHANGED <<auto_order_running, gen, co, cd, calls, racers>>

\* complete_delivery of an assigned order, naming the order's own driver
LiveCompleteDelivery(order_id) ==
    /\ order_id \in assigned_orders(orders)
    /\ LET driver_id == orders[order_id].driver_id
           txn == CompleteTxn(drivers, orders, order_id, driver_id)
           upd == update_hexagon_stats(HEXAGON_DRIVERS,
                      DecrementOrders(HEXAGON_ORDERS, get_hex_id(orders[order_id].pickup)))
       IN /\ HEXAGON_DRIVERS' = upd[1]
          /\ HEXAGON_ORDERS' = upd[2]
          /\ HEXAGON_STATS' = upd[3]
          /\ \E res \in Reassigned(txn[1], txn[2], upd[3], driver_id) :
                /\ drivers' = res[1]
                /\ orders' = Ranked(Undelivered(res[2]))
    /\ UNCHANGED <<auto_order_running, gen, co, cd, calls, racers>>

NextLive ==
    \/ \E trip \in Trips : LiveGenCycle(trip[1], trip[2])
    \/ \E order_id \in LiveIds : LiveCompleteDelivery(order_id)

\* a deployed fleet of one driver
InitLive == InitFleet /\ Cardinality(DOMAIN drivers) = 1

\* every assigned order is eventually completed
SpecLive ==
    /\ InitLive
    /\ [][NextLive]_vars
    /\ \A order_id \in LiveIds : WF_vars(LiveCompleteDelivery(order_id))

----------------------------------------------------------------------------
\* Properties

new_orders             == (DOMAIN orders') \ (DOMAIN orders)
DistanceTo(drv, d, loc) == calculate_distance(drv[d].loc, loc)

\* C1: under any interleaving of create_order requests and generator cycles,
\* no driver is named by two orders in status assigned at the same time.
C1_NoDoubleAssignment ==
    \A o1, o2 \in assigned_orders(orders) :
        orders[o1].driver_id = orders[o2].driver_id => o1 = o2

\* C2: an order creation (create_order or a generator cycle) that finds at
\* least one available driver gives the order to an available driver at
\* minimal distance from the pickup, and records that distance; no busy or
\* moving_to_hotspot driver is chosen; with no available driver, no order
\* is assigned.
C2_NearestAvailableChosen ==
    [][\A id \in new_orders :
          LET row == orders'[id]
              av  == available_drivers(drivers)
          IN IF av = {} THEN row.status = "pending" /\ row.driver_id = NULL
             ELSE /\ row.status = "assigned"
                  /\ row.driver_id \in av
                  /\ row.pickup_distance = DistanceTo(drivers, row.driver_id, row.pickup)
                  /\ \A d \in av : DistanceTo(drivers, d, row.pickup) >= row.pickup_distance]_vars

\* C2 witness: an order went to an available driver although a driver now
\* moving to a hotspot stands strictly nearer to its pickup.
C2_Witness ==
    \E o \in assigned_orders(orders) : \E e \in DOMAIN drivers :
        /\ orders[o].driver_id \in DOMAIN drivers
        /\ e # orders[o].driver_id
        /\ drivers[e].status = "moving_to_hotspot"
        /\ DistanceTo(drivers, e, orders[o].pickup) < orders[o].pickup_distance

\* C3: every successful assign moves exactly one driver from available to
\* busy and adds exactly one order, assigned to that driver, in one step.
C3_AssignMovesOneDriver ==
    [][\A id \in new_orders :
          orders'[id].status = "assigned" =>
              /\ new_orders = {id}
              /\ \E d \in DOMAIN drivers :
                    /\ orders'[id].driver_id = d
                    /\ drivers[d].status = "available"
                    /\ drivers'[d].status = "busy"
                    /\ \A e \in (DOMAIN drivers) \ {d} : drivers'[e] = drivers[e]]_vars

\* C4: in every reachable state every order in status assigned names a
\* driver that is in the store and has status busy.
C4_AssignedOrderHasBusyDriver ==
    \A o \in assigned_orders(orders) :
        /\ orders[o].driver_id \in DOMAIN drivers
        /\ drivers[orders[o].driver_id].status = "busy"

\* C5: create_order with no available driver still stores the order, as
\* pending with no driver, no pickup_distance and total_distance equal to
\* delivery_distance, reports that no capacity was available without
\* failing, and changes no driver.
C5_NoCapacityStoresPending ==
    [][(co.pc = "scan" /\ available_drivers(drivers) = {} /\ co' # co) =>
          /\ co'.resp # 400
          /\ drivers' = drivers
          /\ \E id \in new_orders :
                /\ orders'[id].status = "pending"
                /\ orders'[id].driver_id = NULL
                /\ orders'[id].pickup_distance = NULL
                /\ orders'[id].total_distance = orders'[id].delivery_distance]_vars

\* C6: complete_delivery with an order id that is not in the store answers
\* not found (404) and leaves every driver, every order, every order
\* counter and the statistics as they were.
C6_UnknownOrderChangesNothing ==
    [][(cd.pc = "lookup" /\ cd.order_id \notin DOMAIN orders /\ cd' # cd) =>
          /\ cd'.pc = "done"
          /\ cd'.resp = 404
          /\ UNCHANGED <<drivers, orders, HEXAGON_DRIVERS, HEXAGON_ORDERS, HEXAGON_STATS>>]_vars

\* C6 witness: a call for an unknown order was answered 404 while the store
\* holds drivers and orders.
C6_Witness ==
    /\ cd.pc = "done"
    /\ cd.resp = 404
    /\ cd.order_id \notin DOMAIN orders
    /\ DOMAIN orders # {}

\* C7: complete_delivery with a driver id that is not in the store answers
\* not found and changes neither the order's status nor any order counter.
C7_UnknownDriverChangesNothing ==
    [][(cd.pc = "lookup" /\ cd.order_id \in DOMAIN orders
          /\ cd.driver_id \notin DOMAIN drivers /\ cd' # cd) =>
          /\ cd'.resp = 404
          /\ UNCHANGED <<orders, HEXAGON_ORDERS>>]_vars

\* the counter of a cell, 0 for a cell the dict has no key for
OrderCount(HO, hex_id) == IF hex_id \in DOMAIN HO THEN HO[hex_id] ELSE 0

\* C8: complete_delivery of a stored order first marks the order delivered,
\* the driver available and at the order's destination, with the counters
\* untouched; next decrements the pickup cell's counter (not below zero)
\* and rebuilds the statistics from the counters, with the store untouched;
\* only then does the reassignment step run.
C8_CompletionStepsInOrder ==
    [][/\ (cd.pc = "lookup" /\ cd.order_id \in DOMAIN orders /\ cd' # cd) =>
             /\ cd'.pc = "hex"
             /\ orders'[cd.order_id].status = "delivered"
             /\ cd.driver_id \in DOMAIN drivers =>
                   /\ drivers'[cd.driver_id].status = "available"
                   /\ drivers'[cd.driver_id].loc = orders[cd.order_id].dest
             /\ UNCHANGED <<HEXAGON_DRIVERS, HEXAGON_ORDERS, HEXAGON_STATS>>
       /\ (cd.pc = "hex" /\ cd' # cd) =>
             LET cell == get_hex_id(orders[cd.order_id].pickup)
             IN /\ cd'.pc = "reassign"
                /\ OrderCount(HEXAGON_ORDERS', cell) = Max(OrderCount(HEXAGON_ORDERS, cell) - 1, 0)
                /\ \A h \in DOMAIN HEXAGON_ORDERS' :
                      h # cell => HEXAGON_ORDERS'[h] = OrderCount(HEXAGON_ORDERS, h)
                /\ DOMAIN HEXAGON_STATS' = DOMAIN HEXAGON_ORDERS'
                /\ \A h \in DOMAIN HEXAGON_STATS' :
                      HEXAGON_STATS'[h].order_count = HEXAGON_ORDERS'[h]
                /\ UNCHANGED <<drivers, orders>>
       /\ (cd'.pc \in {"assign", "done"} /\ cd.pc \notin {"assign", "done", "lookup"}) =>
             cd.pc = "reassign"
       /\ (cd'.pc = "reassign" /\ cd' # cd) => cd.pc = "hex"]_vars

\* C8 witness: the reassignment step is about to run for a stored driver,
\* after the counter of the order's pickup cell was taken down to zero.
C8_Witness ==
    /\ cd.pc = "reassign"
    /\ cd.driver_id \in DOMAIN drivers
    /\ cd.order_id[1] = "auto_order"
    /\ orders[cd.order_id].status = "delivered"
    /\ drivers[cd.driver_id].loc = orders[cd.order_id].dest
    /\ drivers[cd.driver_id].loc # orders[cd.order_id].pickup
    /\ LET cell == get_hex_id(orders[cd.order_id].pickup)
       IN cell \in DOMAIN HEXAGON_STATS /\ HEXAGON_STATS[cell].order_count = 0

\* C9: when complete_delivery reaches the reassignment step with a stored
\* driver and at least one pending order, it picks a pending order whose
\* pickup is at minimum distance from the driver's location, which is the
\* delivered order's destination (a single pending order is picked whatever
\* its distance); that order then becomes assigned to the driver with that
\* distance as pickup_distance, and the driver becomes busy.
C9_NearestPendingAssigned ==
    [][/\ (cd.pc = "reassign" /\ cd.driver_id \in DOMAIN drivers
             /\ pending_orders(orders) # {} /\ cd' # cd) =>
             LET loc == drivers[cd.driver_id].loc
             IN /\ cd'.pc = "assign"
                /\ loc = orders[cd.order_id].dest
                /\ cd'.nearest \in pending_orders(orders)
                /\ cd'.dist = calculate_distance(loc, orders[cd'.nearest].pickup)
                /\ \A o \in pending_orders(orders) :
                      calculate_distance(loc, orders[o].pickup) >= cd'.dist
                /\ UNCHANGED <<drivers, orders>>
       /\ (cd.pc = "assign" /\ cd' # cd) =>
             /\ orders'[cd.nearest].status = "assigned"
             /\ orders'[cd.nearest].driver_id = cd.driver_id
             /\ orders'[cd.nearest].pickup_distance = cd.dist
             /\ drivers'[cd.driver_id].status = "busy"
             /\ \A o \in (DOMAIN orders) \ {cd.nearest} : orders'[o] = orders[o]]_vars

\* C9 witness: a pending order was picked although another pending order is
\* strictly farther from the driver.
C9_Witness ==
    /\ cd.pc = "assign"
    /\ \E o \in pending_orders(orders) :
          calculate_distance(drivers[cd.driver_id].loc, orders[o].pickup) > cd.dist

\* C10 as stated: the freed driver is given the oldest pending order.
C10_OldestPendingAssigned ==
    [][(cd.pc = "reassign" /\ cd'.pc = "assign") =>
          \A o \in pending_orders(orders) :
              orders[cd'.nearest].created_at <= orders[o].created_at]_vars

\* C10 amended: the freed driver is given a pending order nearest to its
\* location; age decides only among the pending orders at that minimum
\* distance, of which one with the earliest creation time is picked.
C10_OldestAmongNearest ==
    [][(cd.pc = "reassign" /\ cd'.pc = "assign") =>
          LET loc  == drivers[cd.driver_id].loc
              near == {o \in pending_orders(orders) :
                          \A q \in pending_orders(orders) :
                              calculate_distance(loc, orders[o].pickup)
                                  <= calculate_distance(loc, orders[q].pickup)}
          IN /\ cd'.nearest \in near
             /\ \A o \in near : orders[cd'.nearest].created_at <= orders[o].created_at]_vars

\* C10 witness: two pending orders are equally near the driver and the
\* older of them was picked.
C10_Witness ==
    /\ cd.pc = "assign"
    /\ \E o \in pending_orders(orders) :
          /\ o # cd.nearest
          /\ calculate_distance(drivers[cd.driver_id].loc, orders[o].pickup) = cd.dist
          /\ orders[o].created_at > orders[cd.nearest].created_at

\* the reassignment step of complete_delivery runs for a stored driver while
\* no order is pending
ReassignWithoutPending ==
    /\ cd.pc = "reassign"
    /\ cd.driver_id \in DOMAIN drivers
    /\ pending_orders(orders) = {}
    /\ cd' # cd

\* some cell of the statistics has orders waiting
DemandSomewhere == \E h \in DOMAIN HEXAGON_STATS : HEXAGON_STATS[h].order_count > 0

\* C11 as stated: when complete_delivery runs and no order is pending, the
\* freed driver's status becomes moving_to_hotspot and no order is bound.
C11_NoPendingMovesToHotspot ==
    [][ReassignWithoutPending =>
          /\ drivers'[cd.driver_id].status = "moving_to_hotspot"
          /\ orders' = orders]_vars

\* C11 amended: when complete_delivery runs and no order is pending, no
\* order is bound, and the freed driver's status becomes moving_to_hotspot
\* exactly when some cell has an order count above zero; otherwise the
\* driver's record stays as the completion left it (available).
C11_NoPendingHotspotIfDemand ==
    [][ReassignWithoutPending =>
          /\ orders' = orders
          /\ cd'.pc = "done"
          /\ \A e \in (DOMAIN drivers) \ {cd.driver_id} : drivers'[e] = drivers[e]
          /\ IF DemandSomewhere
             THEN drivers'[cd.driver_id] =
                     [drivers[cd.driver_id] EXCEPT !.status = "moving_to_hotspot"]
             ELSE drivers'[cd.driver_id] = drivers[cd.driver_id]]_vars

\* C11 witness: a completion ended with the freed driver moving to a
\* hotspot, no order pending.
C11_Witness ==
    /\ cd.pc = "done"
    /\ cd.resp = 200
    /\ cd.driver_id \in DOMAIN drivers
    /\ drivers[cd.driver_id].status = "moving_to_hotspot"
    /\ pending_orders(orders) = {}
    /\ DemandSomewhere

\* C12: hotspot selection never selects a cell whose order_count is 0, and
\* selects none when every cell's order_count is 0 or there is no cell; in
\* that case the reassignment step leaves the driver's record unchanged and
\* the completion still answers success.
C12_HotspotNeverEmptyCell ==
    /\ [](\A h \in select_hotspot(HEXAGON_STATS) :
             h # NULL => HEXAGON_STATS[h].order_count # 0)
    /\ []((\A h \in DOMAIN HEXAGON_STATS : HEXAGON_STATS[h].order_count = 0)
             => select_hotspot(HEXAGON_STATS) = {NULL})
    /\ [][(ReassignWithoutPending
             /\ \A h \in DOMAIN HEXAGON_STATS : HEXAGON_STATS[h].order_count = 0) =>
             /\ drivers' = drivers
             /\ orders' = orders
             /\ cd'.pc = "done"
             /\ cd'.resp = 200]_vars

\* C12 witness: a completion answered success with no cell selected: every
\* cell's order count is 0 and the freed driver is still available.
C12_Witness ==
    /\ cd.pc = "done"
    /\ cd.resp = 200
    /\ cd.driver_id \in DOMAIN drivers
    /\ drivers[cd.driver_id].status = "available"
    /\ orders[cd.order_id].status = "delivered"
    /\ pending_orders(orders) = {}
    /\ DOMAIN HEXAGON_STATS # {}
    /\ \A h \in DOMAIN HEXAGON_STATS : HEXAGON_STATS[h].order_count = 0

\* the cells the locations fall in
Cells == {get_hex_id(loc) : loc \in Locs}

\* the pending orders whose pickup lies in a cell, the drivers whose stored
\* location lies in a cell
PendingIn(hex_id) == {o \in pending_orders(orders) : get_hex_id(orders[o].pickup) = hex_id}
DriversIn(hex_id) == {d \in DOMAIN drivers : get_hex_id(drivers[d].loc) = hex_id}

\* the driver count the statistics hold for a cell, 0 for a cell without statistics
DriverCount(hex_id) ==
    IF hex_id \in DOMAIN HEXAGON_STATS THEN HEXAGON_STATS[hex_id].driver_count ELSE 0

\* C13: in every reachable state, every cell's order count equals the number
\* of orders in status pending whose pickup lies in that cell.
C13_OrderCountIsPendingCount ==
    \A h \in Cells : OrderCount(HEXAGON_ORDERS, h) = Cardinality(PendingIn(h))

\* C14: in every reachable state, every cell's driver count equals the
\* number of drivers whose stored location lies in that cell, and every
\* driver's cached cell id is the cell of its stored location.
C14_DriverCellsCurrent ==
    /\ \A d \in DOMAIN drivers : drivers[d].hex_id = get_hex_id(drivers[d].loc)
    /\ \A h \in Cells : DriverCount(h) = Cardinality(DriversIn(h))

\* C16: the statistics are those update_hexagon_stats computes from the
\* driver map and the order counts: one entry for every cell of either map,
\* with density_ratio = order_count / max(driver_count, 1); and running it
\* a second time on its own result changes nothing.
C16_StatsRecomputeIdempotent ==
    LET once  == update_hexagon_stats(HEXAGON_DRIVERS, HEXAGON_ORDERS)
        twice == update_hexagon_stats(once[1], once[2])
    IN /\ HEXAGON_STATS = once[3]
       /\ twice = once
       /\ DOMAIN once[3] = (DOMAIN HEXAGON_DRIVERS) \cup (DOMAIN HEXAGON_ORDERS)
       /\ \A h \in DOMAIN once[3] :
             /\ once[3][h].order_count = HEXAGON_ORDERS[h]
             /\ once[3][h].driver_count = Cardinality(HEXAGON_DRIVERS[h])
             /\ once[3][h].density_ratio[2] > 0
             /\ once[3][h].density_ratio[1] * Max(once[3][h].driver_count, 1)
                   = once[3][h].order_count * once[3][h].density_ratio[2]

\* C16 witness: the statistics hold a cell with orders and no driver next
\* to a cell with two drivers and an order.
C16_Witness ==
    /\ \E h \in DOMAIN HEXAGON_STATS :
          HEXAGON_STATS[h].driver_count = 0 /\ HEXAGON_STATS[h].order_count > 0
    /\ \E h \in DOMAIN HEXAGON_STATS :
          HEXAGON_STATS[h].driver_count = 2 /\ HEXAGON_STATS[h].order_count > 0

\* C17: every stored order in status assigned or delivered has a driver id
\* and a pickup_distance, and every order in status pending has neither.
C17_DriverFieldsMatchStatus ==
    \A o \in DOMAIN orders :
        IF orders[o].status = "pending"
        THEN orders[o].driver_id = NULL /\ orders[o].pickup_distance = NULL
        ELSE orders[o].driver_id # NULL /\ orders[o].pickup_distance # NULL

\* C15: every cell's order count is at least 0 in every reachable state,
\* also when several complete_delivery calls and generator increments on
\* the same cell interleave.
C15_OrderCountNeverNegative ==
    /\ \A h \in DOMAIN HEXAGON_ORDERS : HEXAGON_ORDERS[h] >= 0
    /\ \A h \in DOMAIN HEXAGON_STATS : HEXAGON_STATS[h].order_count >= 0

\* a generator thread is alive, is inside an order-creation cycle
Alive(thread)    == thread.pc # "dead"
MidCycle(thread) == thread.pc \in {"hex", "write"}

\* C18: a start that finds a generator thread alive changes nothing, and
\* under any interleaving of start and stop requests at most one generator
\* thread is alive at any time.
C18_AtMostOneGenerator ==
    /\ [](~(Alive(gen) /\ Alive(orphan)))
    /\ [][\A s \in Starters :
             (starters[s] = "check" /\ starters'[s] # "check" /\ Alive(gen)) =>
                 UNCHANGED <<auto_order_running, gen, orphan>>]_vars

\* C19: once stop_auto_orders has cleared the run flag, the generator begins
\* no new cycle, and at most one further order is created: when an order is
\* created while the flag is cleared, no generator thread is left inside a
\* cycle that could create another.
C19_StopBoundsFurtherOrders ==
    [][/\ ((gen.pc = "loop" /\ gen'.pc = "hex") \/ (orphan.pc = "loop" /\ orphan'.pc = "hex"))
             => auto_order_running
       /\ (~auto_order_running /\ new_orders # {})
             => (~MidCycle(gen') /\ ~MidCycle(orphan'))]_vars

\* C20: after a start_auto_orders call the generator is running: the run
\* flag is true and a generator thread is alive.
C20_RunningAfterStart ==
    [][StartAutoOrders => (auto_order_running' /\ Alive(gen'))]_vars

\* What a deploy_fleet call of count drivers leaves in the store and the maps
FleetIsFresh(count) ==
    /\ DOMAIN drivers' = 1..count
    /\ \A d \in DOMAIN drivers' : drivers'[d].status = "available"
    /\ \A d \in DOMAIN drivers' : drivers'[d].hex_id \in DOMAIN HEXAGON_DRIVERS'
    /\ \A h \in DOMAIN HEXAGON_DRIVERS' :
          HEXAGON_DRIVERS'[h] = {d \in DOMAIN drivers' : drivers'[d].hex_id = h}
    /\ HEXAGON_STATS' = update_hexagon_stats(HEXAGON_DRIVERS', HEXAGON_ORDERS')[3]

\* C21 without its last part: the store holds exactly the count new drivers,
\* all available, the per-cell lists hold exactly them, the statistics are fresh.
C21_FleetReset ==
    [][\A count \in 0..MaxDrivers : \A locs \in [1..count -> Locs] :
          DeployDrivers(count, locs) => FleetIsFresh(count)]_vars

\* C21: after deploy_fleet the store holds exactly count new available drivers
\* with distinct ids and none from before, the per-cell driver lists hold exactly
\* them, the statistics are recomputed, and the generator is running.
C21_DeployResetsAndStarts ==
    [][\A count \in 0..MaxDrivers : \A locs \in [1..count -> Locs] :
          DeployDrivers(count, locs) =>
              /\ FleetIsFresh(count)
              /\ auto_order_running'
              /\ Alive(gen')]_vars

\* C22: order creations that run concurrently, several of them within the same
\* second, all succeed and each stores an order under an id no other order
\* has; stated for the create_order calls that found a driver.
C22_CreationsAllSucceed ==
    [][(co.pc = "write" /\ co'.pc = "done") =>
          /\ co'.resp = 200
          /\ Cardinality(new_orders) = 1]_vars

\* C23: every assigned order has total_distance = pickup_distance +
\* delivery_distance, whether it was assigned at creation or by the
\* reassignment step of complete_delivery.
C23_TotalIsPickupPlusDelivery ==
    \A id \in assigned_orders(orders) :
        orders[id].total_distance =
            orders[id].pickup_distance + orders[id].delivery_distance

\* The stored eta_minutes of every assigned order is the whole-minute time of
\* its stored total_distance at 25 km/h.
C24_EtaFromStoredTotal ==
    \A id \in assigned_orders(orders) :
        orders[id].eta_minutes = eta_of(orders[id].total_distance)

C25_BusyDriverHasAssignedOrder ==
    \A d \in DOMAIN drivers :
        drivers[d].status = "busy" =>
            \E id \in assigned_orders(orders) : orders[id].driver_id = d

\* C26: when hotspot selection selects a cell, no other cell with
\* order_count > 0 has a strictly higher density_ratio.
C26_HotspotHasHighestDensity ==
    \A h \in select_hotspot(HEXAGON_STATS) :
        h # NULL =>
            \A other \in DOMAIN HEXAGON_STATS :
                HEXAGON_STATS[other].order_count > 0 =>
                    ~RatioGT(HEXAGON_STATS[other].density_ratio,
                             HEXAGON_STATS[h].density_ratio)

\* C26 witness: a completion has sent its driver to a hotspot while two cells
\* with orders had different density ratios.
C26_Witness ==
    /\ cd.pc = "done"
    /\ cd.driver_id \in DOMAIN drivers
    /\ drivers[cd.driver_id].status = "moving_to_hotspot"
    /\ \E h1, h2 \in DOMAIN HEXAGON_STATS :
          /\ HEXAGON_STATS[h1].order_count > 0
          /\ HEXAGON_STATS[h2].order_count > 0
          /\ RatioGT(HEXAGON_STATS[h1].density_ratio, HEXAGON_STATS[h2].density_ratio)

\* C27: when the store rejects the write of an assign (a duplicate order id),
\* nothing of it is committed -- no order row is stored and the chosen driver
\* is not made busy -- and create_order reports the failure (500) instead of
\* success; success is answered only with the order stored and the driver busy.
C27_RejectedWriteLeavesNothing ==
    [][/\ (co.pc = "write" /\ co'.pc = "done") =>
             \/ /\ co'.resp = 500
                /\ new_orders = {}
                /\ store' = store
             \/ /\ co'.resp = 200
                /\ \E id \in new_orders :
                      /\ orders'[id].status = "assigned"
                      /\ orders'[id].driver_id = co.nearest
                /\ drivers'[co.nearest].status = "busy"
       /\ (gen.pc = "write" /\ gen'.pc = "loop" /\ new_orders = {}) =>
             store' = store]_vars

\* C27 witness: a create_order whose insert was rejected has answered 500 and
\* the driver it had chosen is still available.
C27_Witness ==
    /\ co.pc = "done"
    /\ co.resp = 500
    /\ drivers[co.nearest].status = "available"

\* C28: complete_delivery of a stored order that is not assigned to the named
\* driver -- pending, already delivered, or assigned to another driver --
\* changes no driver record and no cell's order counter.
C28_OnlyOwnAssignedOrderCompletes ==
    [][\A order_id \in DOMAIN orders : \A driver_id \in DriverIds :
          (/\ CompleteDelivery(order_id, driver_id)
           /\ ~(/\ orders[order_id].status = "assigned"
                /\ orders[order_id].driver_id = driver_id)) =>
              /\ drivers' = drivers
              /\ \A h \in Cells : OrderCount(HEXAGON_ORDERS', h) = OrderCount(HEXAGON_ORDERS, h)]_vars

\* a step of a complete_delivery call that names driver d, or a deploy_fleet
CompletionOrDeploy(d) ==
    \/ \E c \in Completers :
          completions[c].driver_id = d /\ completions'[c] # completions[c]
    \/ cd.driver_id = d /\ cd' # cd
    \/ \E order_id \in DOMAIN orders : CompleteDelivery(order_id, d)
    \/ \E count \in 0..MaxDrivers : \E locs \in [1..count -> Locs] : DeployDrivers(count, locs)

\* C29: a driver with status moving_to_hotspot is never selected by assign,
\* however many orders are created; its status changes only in a
\* complete_delivery call that names it or in a deploy_fleet reset.
C29_HotspotDriverLeftAlone ==
    [][\A d \in DOMAIN drivers :
          (/\ drivers[d].status = "moving_to_hotspot"
           /\ d \in DOMAIN drivers' => drivers'[d].status # "moving_to_hotspot") =>
              CompletionOrDeploy(d)]_vars

\* C30: every order stored pending is eventually assigned, when every
\* assigned order is eventually completed, even while the generator keeps
\* adding pending orders.
C30_PendingEventuallyAssigned ==
    \A order_id \in LiveIds :
        (order_id \in pending_orders(orders)) ~> (order_id \in assigned_orders(orders))

====
